---- MODULE Spec2Model ----
(***************************************************************************)
(* A model of src/tableau.py: the formula classes, the recursive-descent   *)
(* parser, the branch state (PriorityQueue), the tableau engine            *)
(* (ProofMachine) and the batch driver that reads input.txt line by line.  *)
(*                                                                         *)
(* Python values are records tagged with their class in the field cls.     *)
(* A text is a sequence of one-character strings (list(formula)).          *)
(* The debug trace (_process, _expand_id, prefix, childrenPrefix) only     *)
(* collects printable lines and is left out.                               *)
(***************************************************************************)
EXTENDS Integers, Sequences, FiniteSets, TLC

VARIABLES
    PARSE,       \* driver flag: 'PARSE' in firstLine
    SAT,         \* driver flag: 'SAT' in firstLine
    pc,          \* position of the driver
    lineNo,      \* number of lines read from the file so far
    line,        \* the current line, without its newline
    parsed,      \* the value parse(line) returned
    resultTree,  \* the module-level global resultTree
    stdout,      \* what was printed since the current line was read
    error,       \* the exception that ended the program, "" if none
    stack,       \* call frames of the ProofMachine, innermost last
    heap,        \* the PriorityQueue objects created so far, by identity
    retval,      \* the Result SAT() returned to sat(), None before
    call,        \* unit harness: the function applied and its arguments
    ret          \* unit harness: what the call returned

vars == <<PARSE, SAT, pc, lineNo, line, parsed, resultTree, stdout, error,
          stack, heap, retval, call, ret>>

---------------------------------------------------------------------------
(* Bounds of the model *)

MaxLineLen == 5
MaxLines == 2
MaxLen == 7

(* The letters the inputs are drawn from: a subset of each character class *)
PropChars == {"p", "q"}
VarChars == {"x"}
PredChars == {"P"}
BinOps == {"^", "v", ">"}
Quantifiers == {"E", "A"}
Alphabet == PropChars \cup VarChars \cup PredChars \cup BinOps \cup Quantifiers
            \cup {"-", "(", ")", ",", "a"}

---------------------------------------------------------------------------
(* Python values *)

None == [cls |-> "NoneType"]

\* a raw one-character str, as the parser stores it in a predicate slot
PyStr(c) == [cls |-> "str", name |-> c]

\* readNext()/peekNext() returning None instead of a character
NoToken == "None"

FormulaSymbol == [And |-> "^", Or |-> "v", Not |-> "-", Implies |-> ">",
                  Exist |-> "E", All |-> "A"]

Proposition(name) == [cls |-> "Proposition", name |-> name]

Variable(name) == [cls |-> "Variable", name |-> name]

Constant(name) == [cls |-> "Constant", name |-> name]

Predicate(name, left, right) ==
    [cls |-> "Predicate", name |-> name, leftVar |-> left, rightVar |-> right]

Formula(cls, name, left, right) ==
    [cls |-> cls, name |-> name, left |-> left, right |-> right]

AndFormula(left, right) == Formula("AndFormula", FormulaSymbol.And, left, right)

OrFormula(left, right) == Formula("OrFormula", FormulaSymbol.Or, left, right)

ImpliesFormula(left, right) ==
    Formula("ImpliesFormula", FormulaSymbol.Implies, left, right)

NotFormula(formula) == Formula("NotFormula", FormulaSymbol.Not, formula, None)

ForAllFormula(var, formula) ==
    [cls |-> "ForAllFormula", name |-> FormulaSymbol.All,
     left |-> formula, right |-> None, var |-> var]

ExistFormula(var, formula) ==
    [cls |-> "ExistFormula", name |-> FormulaSymbol.Exist,
     left |-> formula, right |-> None, var |-> var]

FormulaClasses == {"AndFormula", "OrFormula", "ImpliesFormula", "NotFormula",
                   "ForAllFormula", "ExistFormula"}

\* isinstance(x, Formula)
isFormula(x) == x.cls \in FormulaClasses

isProp(c) == c = "p" \/ c = "q" \/ c = "r" \/ c = "s"

isVar(c) == c = "x" \/ c = "y" \/ c = "z" \/ c = "w"

isPredChar(c) == c = "P" \/ c = "Q" \/ c = "R" \/ c = "S"

---------------------------------------------------------------------------
(* str(): Symbol.__str__, Predicate.__str__, Formula.__str__ *)

RECURSIVE Str(_)
\* a printer that leaves out the parentheses of the binary forms
Str_NoParentheses(x) ==
    CASE x.cls = "NotFormula" -> <<FormulaSymbol.Not>> \o Str(x.left)
      [] x.cls = "ExistFormula" ->
            <<FormulaSymbol.Exist>> \o Str(x.var) \o Str(x.left)
      [] x.cls = "ForAllFormula" ->
            <<FormulaSymbol.All>> \o Str(x.var) \o Str(x.left)
      [] x.cls \in {"AndFormula", "OrFormula", "ImpliesFormula"} ->
            Str(x.left) \o <<x.name>> \o Str(x.right)
      [] x.cls = "Predicate" ->
            <<x.name, "(">> \o Str(x.leftVar) \o <<",">> \o Str(x.rightVar)
            \o <<")">>
      [] x.cls = "NoneType" -> <<"N", "o", "n", "e">>
      [] OTHER -> <<x.name>>

Str(x) ==
    CASE x.cls = "NotFormula" -> <<FormulaSymbol.Not>> \o Str(x.left)
      [] x.cls = "ExistFormula" ->
            <<FormulaSymbol.Exist>> \o Str(x.var) \o Str(x.left)
      [] x.cls = "ForAllFormula" ->
            <<FormulaSymbol.All>> \o Str(x.var) \o Str(x.left)
      [] x.cls \in {"AndFormula", "OrFormula", "ImpliesFormula"} ->
            <<"(">> \o Str(x.left) \o <<x.name>> \o Str(x.right) \o <<")">>
      [] x.cls = "Predicate" ->
            <<x.name, "(">> \o Str(x.leftVar) \o <<",">> \o Str(x.rightVar)
            \o <<")">>
      [] x.cls = "NoneType" -> <<"N", "o", "n", "e">>
      [] OTHER -> <<x.name>>

---------------------------------------------------------------------------
(* Parser.  A parser state st holds _p, _temp_p and _isFirstOrder; every    *)
(* method returns [exc, val, st]: exc is "" or the exception raised.        *)

ParserInit == [p |-> 0, temp_p |-> 0, isFirstOrder |-> FALSE]

Return(val, st) == [exc |-> "", val |-> val, st |-> st]

Raise(exc, st) == [exc |-> exc, val |-> None, st |-> st]

hasNext(tokens, st) == st.p # Len(tokens)

readNext(tokens, st) ==
    IF hasNext(tokens, st)
    THEN [exc |-> "", val |-> tokens[st.p + 1],
          st |-> [st EXCEPT !.p = st.p + 1, !.temp_p = st.p + 1]]
    ELSE [exc |-> "", val |-> NoToken, st |-> st]

peekNext(tokens, st) ==
    IF hasNext(tokens, st)
    THEN IF st.temp_p < Len(tokens)
         THEN [exc |-> "", val |-> tokens[st.temp_p + 1],
               st |-> [st EXCEPT !.temp_p = st.temp_p + 1]]
         ELSE [exc |-> "IndexError", val |-> NoToken, st |-> st]
    ELSE [exc |-> "", val |-> NoToken, st |-> st]

\* the message is built with "..." + actual, a TypeError when actual is None
eatNext(tokens, st, symbol) ==
    LET r == readNext(tokens, st) IN
    IF r.val # symbol
    THEN IF r.val = NoToken
         THEN [exc |-> "TypeError", val |-> NoToken, st |-> r.st]
         ELSE [exc |-> "ParseException", val |-> NoToken, st |-> r.st]
    ELSE [exc |-> "", val |-> symbol, st |-> r.st]

assertEnd(tokens, st) ==
    IF hasNext(tokens, st)
    THEN Raise("ParseException", readNext(tokens, st).st)
    ELSE Return(None, st)

(* The result of a recursive call is bound once, as the only element of a   *)
(* set, and then used as a value.                                           *)

RECURSIVE parseFormula(_, _)
RECURSIVE parseBinary(_, _)

\* parseFormula, the predicate case
parsePredicate(tokens, st0) ==
    LET st == [st0 EXCEPT !.isFirstOrder = TRUE]
        name == readNext(tokens, st)
        e1 == eatNext(tokens, name.st, "(")
        var1 == readNext(tokens, e1.st)
        e2 == eatNext(tokens, var1.st, ",")
        var2 == readNext(tokens, e2.st)
        e3 == eatNext(tokens, var2.st, ")")
    IN  IF e1.exc # "" THEN Raise(e1.exc, e1.st)
        ELSE IF ~isVar(var1.val) THEN Raise("ParseException", var1.st)
        ELSE IF e2.exc # "" THEN Raise(e2.exc, e2.st)
        ELSE IF ~isVar(var2.val) THEN Raise("ParseException", var2.st)
        ELSE IF e3.exc # "" THEN Raise(e3.exc, e3.st)
        ELSE Return(Predicate(name.val, PyStr(var1.val), PyStr(var2.val)), e3.st)

\* parseFormula, the negation case
parseNegation(tokens, st) ==
    LET e == eatNext(tokens, st, FormulaSymbol.Not) IN
    IF e.exc # "" THEN Raise(e.exc, e.st)
    ELSE CHOOSE result \in
            {IF formula.exc # "" THEN formula
             ELSE Return(NotFormula(formula.val), formula.st) :
             formula \in {parseFormula(tokens, e.st)}} : TRUE

\* parseFormula, the two quantifier cases
parseQuantified(tokens, st0, symbol) ==
    LET st == [st0 EXCEPT !.isFirstOrder = TRUE]
        e == eatNext(tokens, st, symbol)
        var == readNext(tokens, e.st)
    IN  IF e.exc # "" THEN Raise(e.exc, e.st)
        ELSE IF ~isVar(var.val) THEN Raise("ParseException", var.st)
        ELSE CHOOSE result \in
                {IF formula.exc # "" THEN formula
                 ELSE IF symbol = FormulaSymbol.Exist
                 THEN Return(ExistFormula(PyStr(var.val), formula.val),
                             formula.st)
                 ELSE Return(ForAllFormula(PyStr(var.val), formula.val),
                             formula.st) :
                 formula \in {parseFormula(tokens, var.st)}} : TRUE

\* parseFormula, the parentheses case
parseParentheses(tokens, st) ==
    LET e == eatNext(tokens, st, "(") IN
    IF e.exc # "" THEN Raise(e.exc, e.st)
    ELSE CHOOSE result \in
            {IF leftFormula.exc # "" THEN leftFormula
             ELSE LET e2 == eatNext(tokens, leftFormula.st, ")") IN
                  IF e2.exc # "" THEN Raise(e2.exc, e2.st)
                  ELSE Return(leftFormula.val, e2.st) :
             leftFormula \in {parseBinary(tokens, e.st)}} : TRUE

parseFormula(tokens, st0) ==
    LET pk == peekNext(tokens, st0)
        first == pk.val
        st == pk.st
    IN  IF pk.exc # "" THEN Raise(pk.exc, st)
        ELSE IF first = NoToken THEN Raise("ParseException", st)
        ELSE IF isPredChar(first) THEN parsePredicate(tokens, st)
        ELSE IF isProp(first)
             THEN LET e == eatNext(tokens, st, first) IN
                  IF e.exc # "" THEN Raise(e.exc, e.st)
                  ELSE Return(Proposition(first), e.st)
        ELSE IF first = FormulaSymbol.Not THEN parseNegation(tokens, st)
        ELSE IF first = FormulaSymbol.Exist
             THEN parseQuantified(tokens, st, FormulaSymbol.Exist)
        ELSE IF first = FormulaSymbol.All
             THEN parseQuantified(tokens, st, FormulaSymbol.All)
        ELSE IF first = "(" THEN parseParentheses(tokens, st)
        ELSE Raise("ParseException", st)

\* parseBinary once both sides are parsed
parseOperator(left, op, right) ==
    IF op.val = FormulaSymbol.And
    THEN Return(AndFormula(left.val, right.val), right.st)
    ELSE IF op.val = FormulaSymbol.Or
    THEN Return(OrFormula(left.val, right.val), right.st)
    ELSE IF op.val = FormulaSymbol.Implies
    THEN Return(ImpliesFormula(left.val, right.val), right.st)
    ELSE IF op.val = NoToken THEN Raise("TypeError", right.st)
    ELSE Raise("ParseException", right.st)

\* parseBinary after left = self.parseFormula()
parseRight(tokens, left) ==
    LET op == readNext(tokens, left.st) IN
    CHOOSE result \in
        {IF right.exc # "" THEN right ELSE parseOperator(left, op, right) :
         right \in {parseFormula(tokens, op.st)}} : TRUE

parseBinary(tokens, st) ==
    CHOOSE result \in
        {IF left.exc # "" THEN left ELSE parseRight(tokens, left) :
         left \in {parseFormula(tokens, st)}} : TRUE

\* Parser.parse, after formula = self.parseFormula()
parseEnd(tokens, formula) ==
    IF formula.exc # "" THEN formula
    ELSE LET e == assertEnd(tokens, formula.st) IN
         IF e.exc # "" THEN e
         ELSE Return(formula.val, formula.st)

\* Parser().parse(formula)
Parser_parse(tokens) ==
    CHOOSE result \in
        {parseEnd(tokens, formula) :
         formula \in {parseFormula(tokens, ParserInit)}} : TRUE

---------------------------------------------------------------------------
(* expand(): Formula.expand, ImpliesFormula.expand, NotFormula.expand *)

\* an expansion of A>B that forgets to negate A
ImpliesFormula_expand_Unnegated(self) == OrFormula(self.left, self.right)

ImpliesFormula_expand(self) == OrFormula(NotFormula(self.left), self.right)

NotFormula_expand(self) ==
    LET formula == self.left IN
    IF formula.cls = "AndFormula"
    THEN OrFormula(NotFormula(formula.left), NotFormula(formula.right))
    ELSE IF formula.cls = "OrFormula"
    THEN AndFormula(NotFormula(formula.left), NotFormula(formula.right))
    ELSE IF formula.cls = "NotFormula"
    THEN formula.left
    ELSE IF formula.cls = "ImpliesFormula"
    THEN AndFormula(formula.left, NotFormula(formula.right))
    ELSE IF formula.cls = "ForAllFormula"
    THEN ExistFormula(formula.var, NotFormula(formula))
    ELSE IF formula.cls = "ExistFormula"
    THEN ForAllFormula(formula.var, NotFormula(formula))
    ELSE self

expand(self) ==
    IF self.cls = "NotFormula" THEN NotFormula_expand(self)
    ELSE IF self.cls = "ImpliesFormula" THEN ImpliesFormula_expand(self)
    ELSE None

---------------------------------------------------------------------------
(* Symbol.isPrimary, Symbol.isSymbol, Predicate.isQuantified, Formula.isBinary *)

isQuantified(self) ==
    self.leftVar.cls = "Constant" /\ self.rightVar.cls = "Constant"

isPrimary(self) ==
    \/ self.cls = "Proposition"
    \/ (self.cls = "Predicate" /\ isQuantified(self))

isSymbol(self) ==
    isPrimary(self) \/ (self.cls = "NotFormula" /\ isPrimary(self.left))

isBinary(self) == self.left # None /\ self.right # None

---------------------------------------------------------------------------
(* a == b in Python: the __eq__ of a's class, or the reflected __eq__ of    *)
(* b's class when a is a str or None.  Returns [exc, val].                  *)

EqVal(b) == [exc |-> "", val |-> b]

EqRaise(exc) == [exc |-> exc, val |-> FALSE]

hasName(x) == x.cls \notin {"NoneType", "str"}

RECURSIVE PyEq(_, _)
\* Symbol.__eq__, for Proposition, Variable and Constant
Symbol_eq(self, other) ==
    IF hasName(other) THEN EqVal(self.name = other.name)
    ELSE EqRaise("AttributeError")

\* Predicate.__eq__
Predicate_eq(self, other) ==
    IF other.cls # "Predicate" THEN EqRaise("AttributeError")
    ELSE LET l == PyEq(self.leftVar, other.leftVar) IN
         IF l.exc # "" \/ ~l.val THEN l
         ELSE PyEq(self.rightVar, other.rightVar)

\* Formula.__eq__
Formula_eq(self, other) ==
    IF ~hasName(other) THEN EqRaise("AttributeError")
    ELSE LET result == self.name = other.name /\ self.cls = other.cls IN
         IF ~isFormula(other) \/ ~result THEN EqVal(result)
         ELSE LET l == PyEq(self.left, other.left) IN
              IF l.exc # "" \/ ~l.val THEN l
              ELSE PyEq(self.right, other.right)

PyEq(a, b) ==
    IF a.cls \in {"Proposition", "Variable", "Constant"} THEN Symbol_eq(a, b)
    ELSE IF a.cls = "Predicate" THEN Predicate_eq(a, b)
    ELSE IF isFormula(a) THEN Formula_eq(a, b)
    ELSE IF a.cls = "str"
    THEN IF b.cls = "str" THEN EqVal(a.name = b.name)
         ELSE IF b.cls = "NoneType" THEN EqVal(FALSE)
         ELSE PyEq(b, a)
    ELSE IF b.cls = "NoneType" THEN EqVal(TRUE)   \* None == None
    ELSE IF b.cls = "str" THEN EqVal(FALSE)
    ELSE PyEq(b, a)

\* Predicate.substitute: [exc, val], val the predicate after the call
substitute(self, v, c) ==
    CHOOSE result \in
        {IF l.exc # "" THEN [exc |-> l.exc, val |-> self]
         ELSE IF l.val
         THEN [exc |-> "", val |-> [self EXCEPT !.leftVar = c]]
         ELSE CHOOSE second \in
                {IF r.exc # "" THEN [exc |-> r.exc, val |-> self]
                 ELSE IF r.val
                 THEN [exc |-> "", val |-> [self EXCEPT !.rightVar = c]]
                 ELSE [exc |-> "", val |-> self] :
                 r \in {PyEq(self.rightVar, v)}} : TRUE :
         l \in {PyEq(self.leftVar, v)}} : TRUE

---------------------------------------------------------------------------
(* Result *)

SATISFIABLE == 1
NOT_SATISFIABLE == 0
MAY_SATISFIABLE == 2

Result(result) == [cls |-> "Result", result |-> result]

satOutput == <<"is not satisfiable", "is satisfiable",
               "may or may not be satisfiable">>

\* a combination in which MAY_SATISFIABLE is looked for first
checkSAT_MayFirst(self, other) ==
    IF self.result = MAY_SATISFIABLE \/ other.result = MAY_SATISFIABLE
    THEN [exc |-> "", val |-> Result(MAY_SATISFIABLE)]
    ELSE IF self.result = SATISFIABLE \/ other.result = SATISFIABLE
    THEN [exc |-> "", val |-> Result(SATISFIABLE)]
    ELSE [exc |-> "", val |-> Result(NOT_SATISFIABLE)]

\* Result.checkSAT; [exc, val]
checkSAT(self, other) ==
    IF self.result = SATISFIABLE \/ other.result = SATISFIABLE
    THEN [exc |-> "", val |-> Result(SATISFIABLE)]
    ELSE IF self.result = MAY_SATISFIABLE \/ other.result = MAY_SATISFIABLE
    THEN [exc |-> "", val |-> Result(MAY_SATISFIABLE)]
    ELSE IF self.result = NOT_SATISFIABLE /\ other.result = NOT_SATISFIABLE
    THEN [exc |-> "", val |-> Result(NOT_SATISFIABLE)]
    ELSE [exc |-> "TableauException", val |-> None]

---------------------------------------------------------------------------
(* PriorityQueue: the branch state *)

PriorityQueue(fms, syms, consts) ==
    [formulas |-> fms, symbols |-> syms, constants |-> consts]

\* an addFormula without the branch that puts an And at the front
addFormula_AndAtBack(self, fm0) ==
    LET fm == IF fm0.cls = "NotFormula" \/ fm0.cls = "ImpliesFormula"
              THEN expand(fm0) ELSE fm0
    IN  IF isSymbol(fm)
        THEN [self EXCEPT !.symbols = Append(@, fm)]
        ELSE IF fm.cls = "ExistFormula"
        THEN [self EXCEPT !.formulas = <<fm>> \o @]
        ELSE [self EXCEPT !.formulas = Append(@, fm)]

addFormula(self, fm0) ==
    LET fm == IF fm0.cls = "NotFormula" \/ fm0.cls = "ImpliesFormula"
              THEN expand(fm0) ELSE fm0
    IN  IF isSymbol(fm)
        THEN [self EXCEPT !.symbols = Append(@, fm)]
        ELSE IF fm.cls = "ExistFormula"
        THEN [self EXCEPT !.formulas = <<fm>> \o @]
        ELSE IF fm.cls = "AndFormula"
        THEN [self EXCEPT !.formulas = <<fm>> \o @]
        ELSE [self EXCEPT !.formulas = Append(@, fm)]

\* getFormula: [val, self], the popped formula (or None) and the queue after
getFormula(self) ==
    IF Len(self.formulas) = 0
    THEN [val |-> None, self |-> self]
    ELSE [val |-> Head(self.formulas),
          self |-> [self EXCEPT !.formulas = Tail(@)]]

getRemainingSymbols(self) == self.symbols

\* the inner loop of checkContradiction from index j: [exc, val]
RECURSIVE compareLoop(_, _, _)
compareLoop(symbols, symbol, j) ==
    IF j > Len(symbols) THEN EqVal(FALSE)
    ELSE LET e == PyEq(symbols[j], symbol.left) IN
         IF e.exc # "" \/ e.val THEN e
         ELSE compareLoop(symbols, symbol, j + 1)

\* the outer loop of checkContradiction from index i: [exc, val]
RECURSIVE symbolLoop(_, _)
symbolLoop(symbols, i) ==
    IF i > Len(symbols) THEN [exc |-> "", val |-> None]
    ELSE IF symbols[i].cls = "NotFormula"
    THEN LET c == compareLoop(symbols, symbols[i], 1) IN
         IF c.exc # "" THEN [exc |-> c.exc, val |-> None]
         ELSE IF c.val THEN [exc |-> "", val |-> symbols[i]]
         ELSE symbolLoop(symbols, i + 1)
    ELSE symbolLoop(symbols, i + 1)

checkContradiction(self) == symbolLoop(self.symbols, 1)

getAllConstants(self) == self.constants

MaxConstants == 10

ConstChar(i) == <<"a", "b", "c", "d", "e", "f", "g", "h", "i", "j">>[i + 1]

\* the range(10) loop of introduceConstant from i: [val, self]
RECURSIVE constLoop(_, _)
constLoop(self, i) ==
    IF i >= MaxConstants THEN [val |-> None, self |-> self]
    ELSE LET newConstChar == ConstChar(i)
             duplicate == \E k \in 1..Len(self.constants) :
                              self.constants[k].name = newConstChar
         IN  IF ~duplicate
             THEN [val |-> Constant(newConstChar),
                   self |-> [self EXCEPT
                                !.constants = Append(@, Constant(newConstChar))]]
             ELSE constLoop(self, i + 1)

\* an introduceConstant that takes the letter after as many letters as there
\* are constants, without looking for duplicates
introduceConstant_ByCount(self) ==
    IF Len(self.constants) >= MaxConstants THEN [val |-> None, self |-> self]
    ELSE [val |-> Constant(ConstChar(Len(self.constants))),
          self |-> [self EXCEPT !.constants =
                       Append(@, Constant(ConstChar(Len(self.constants))))]]

introduceConstant(self) == constLoop(self, 0)

copy(self) == PriorityQueue(self.formulas, self.symbols, self.constants)

---------------------------------------------------------------------------
(* ProofMachine.  A frame is one call of _isFormulaClosed, _alpha, _atom or *)
(* _beta; queue is the identity (index in heap) of the PriorityQueue it was *)
(* passed.  at: "start", "tail" (in `return <call>`), "left"/"right" (a     *)
(* _beta waiting for its first/second call), "combine", "return".           *)

Frame(fn, fm, queue) ==
    [fn |-> fn, fm |-> fm, queue |-> queue, at |-> "start",
     leftCondition |-> None, rightCondition |-> None, result |-> None]

Top == stack[Len(stack)]

Running(fn, at) ==
    /\ pc = "sat"
    /\ stack # <<>>
    /\ Top.fn = fn
    /\ Top.at = at

\* the stack after the running frame calls `frame`, itself moving to `at`
Push(at, frame) == Append([stack EXCEPT ![Len(stack)].at = at], frame)

\* an uncaught exception ends the program
Crash(exc) ==
    /\ error' = exc
    /\ pc' = "crashed"

DriverVars == <<PARSE, SAT, lineNo, line, parsed, resultTree, stdout>>

UnitVars == <<call, ret>>

\* ProofMachine._isFormulaClosed
IsFormulaClosed ==
    /\ Running("_isFormulaClosed", "start")
    /\ LET g == getFormula(addFormula(heap[Top.queue], Top.fm))
           fm == g.val
       IN  /\ heap' = [heap EXCEPT ![Top.queue] = g.self]
           /\ IF fm = None
              THEN /\ stack' = Push("tail", Frame("_atom", None, Top.queue))
                   /\ UNCHANGED <<pc, error>>
              ELSE IF fm.cls = "AndFormula"
              THEN /\ stack' = Push("tail", Frame("_alpha", fm, Top.queue))
                   /\ UNCHANGED <<pc, error>>
              ELSE IF fm.cls = "OrFormula"
              THEN /\ stack' = Push("tail", Frame("_beta", fm, Top.queue))
                   /\ UNCHANGED <<pc, error>>
              ELSE /\ Crash("TableauException")
                   /\ UNCHANGED stack
    /\ UNCHANGED <<DriverVars, UnitVars, retval>>

\* ProofMachine._alpha
Alpha ==
    /\ Running("_alpha", "start")
    /\ heap' = [heap EXCEPT ![Top.queue] =
                   addFormula(addFormula(@, Top.fm.left), Top.fm.right)]
    /\ stack' = Push("tail", Frame("_atom", None, Top.queue))
    /\ UNCHANGED <<DriverVars, UnitVars, retval, pc, error>>

\* ProofMachine._atom
Atom ==
    /\ Running("_atom", "start")
    /\ LET queue == heap[Top.queue]
           c == checkContradiction(queue)
           g == getFormula(queue)
       IN  IF c.exc # ""
           THEN /\ Crash(c.exc)
                /\ UNCHANGED <<stack, heap>>
           ELSE IF c.val # None
           THEN /\ stack' = [stack EXCEPT
                      ![Len(stack)].result = Result(NOT_SATISFIABLE),
                      ![Len(stack)].at = "return"]
                /\ UNCHANGED <<heap, pc, error>>
           ELSE IF g.val = None
           THEN /\ stack' = [stack EXCEPT
                      ![Len(stack)].result = Result(SATISFIABLE),
                      ![Len(stack)].at = "return"]
                /\ UNCHANGED <<heap, pc, error>>
           ELSE /\ heap' = [heap EXCEPT ![Top.queue] = g.self]
                /\ stack' = Push("tail",
                                 Frame("_isFormulaClosed", g.val, Top.queue))
                /\ UNCHANGED <<pc, error>>
    /\ UNCHANGED <<DriverVars, UnitVars, retval>>

\* a _beta that hands its own queue to the first call instead of a copy
BetaLeft_Shared ==
    /\ Running("_beta", "start")
    /\ heap' = heap
    /\ stack' = Push("left",
                     Frame("_isFormulaClosed", Top.fm.left, Top.queue))
    /\ UNCHANGED <<DriverVars, UnitVars, retval, pc, error>>

\* ProofMachine._beta, the first call: leftCondition = ...(queue.copy())
BetaLeft ==
    /\ Running("_beta", "start")
    /\ heap' = Append(heap, copy(heap[Top.queue]))
    /\ stack' = Push("left",
                     Frame("_isFormulaClosed", Top.fm.left, Len(heap) + 1))
    /\ UNCHANGED <<DriverVars, UnitVars, retval, pc, error>>

\* ProofMachine._beta, the second call: rightCondition = ...(queue.copy())
BetaRight ==
    /\ Running("_beta", "right")
    /\ heap' = Append(heap, copy(heap[Top.queue]))
    /\ stack' = Push("right",
                     Frame("_isFormulaClosed", Top.fm.right, Len(heap) + 1))
    /\ UNCHANGED <<DriverVars, UnitVars, retval, pc, error>>

\* ProofMachine._beta, return Result.checkSAT(leftCondition, rightCondition)
BetaCombine ==
    /\ Running("_beta", "combine")
    /\ LET r == checkSAT(Top.leftCondition, Top.rightCondition) IN
       IF r.exc # ""
       THEN /\ Crash(r.exc)
            /\ UNCHANGED stack
       ELSE /\ stack' = [stack EXCEPT ![Len(stack)].result = r.val,
                                      ![Len(stack)].at = "return"]
            /\ UNCHANGED <<pc, error>>
    /\ UNCHANGED <<DriverVars, UnitVars, retval, heap>>

\* the frames left once the callers that are in `return <call>` return too
RECURSIVE Unwind(_)
Unwind(stk) ==
    IF stk # <<>> /\ stk[Len(stk)].at = "tail"
    THEN Unwind(SubSeq(stk, 1, Len(stk) - 1))
    ELSE stk

\* a return statement: the result goes to the _beta that waits for it, or,
\* from the outermost call, through SAT() to sat()
ReturnResult ==
    /\ pc = "sat"
    /\ stack # <<>>
    /\ Top.at = "return"
    /\ LET rest == Unwind(SubSeq(stack, 1, Len(stack) - 1))
           n == Len(rest)
       IN  IF rest = <<>>
           THEN /\ stack' = <<>>
                /\ retval' = Top.result
           ELSE /\ retval' = retval
                /\ stack' = IF rest[n].at = "left"
                            THEN [rest EXCEPT ![n].leftCondition = Top.result,
                                              ![n].at = "right"]
                            ELSE [rest EXCEPT ![n].rightCondition = Top.result,
                                              ![n].at = "combine"]
    /\ UNCHANGED <<DriverVars, UnitVars, heap, pc, error>>

Machine ==
    \/ IsFormulaClosed
    \/ Alpha
    \/ Atom
    \/ BetaLeft
    \/ BetaRight
    \/ BetaCombine
    \/ ReturnResult

---------------------------------------------------------------------------
(* The driver: parse(), lhs(), con(), rhs(), sat() and the loop over the    *)
(* lines of input.txt.                                                      *)

ParseOutputOption ==
    [NOT_FORMULA |-> 0, ATOM |-> 1, FIRST_ORDER_FORMULA_NEGATION |-> 2,
     UNIVERSAL_QUANTIFIED_FORMULA |-> 3, EXISTENTIALLY_QUANTIFIED_FORMULA |-> 4,
     BINARY_FIRST_ORDER_FORMULA |-> 5, PROPOSITION_ |-> 6,
     PROPOSITIONAL_FORMULA_NEGATION |-> 7, BINARY_PROPOSITIONAL_FORMULA |-> 8]

parseOutputs ==
    <<"not a formula", "an atom", "a negation of a first order logic formula",
      "a universally quantified formula", "an existentially quantified formula",
      "a binary connective first order formula", "a proposition",
      "a negation of a propositional formula",
      "a binary connective propositional formula">>

\* parse(fm), what it returns for the tree the parser built
classify(r) ==
    LET tree == r.val
        O == ParseOutputOption
    IN  IF ~isFormula(tree)
        THEN IF tree.cls = "Proposition" THEN O.PROPOSITION_ ELSE O.ATOM
        ELSE IF r.st.isFirstOrder
        THEN IF isBinary(tree) THEN O.BINARY_FIRST_ORDER_FORMULA
             ELSE IF tree.cls = "ExistFormula"
             THEN O.EXISTENTIALLY_QUANTIFIED_FORMULA
             ELSE IF tree.cls = "ForAllFormula"
             THEN O.UNIVERSAL_QUANTIFIED_FORMULA
             ELSE O.FIRST_ORDER_FORMULA_NEGATION
        ELSE IF tree.cls = "NotFormula" THEN O.PROPOSITIONAL_FORMULA_NEGATION
             ELSE IF isBinary(tree) THEN O.BINARY_PROPOSITIONAL_FORMULA
             ELSE O.PROPOSITION_

\* parse(fm) with the global resultTree = tree0: [exc, val, resultTree]
parse(fm, tree0) ==
    CHOOSE result \in
        {IF r.exc = "ParseException"
         THEN [exc |-> "", val |-> ParseOutputOption.NOT_FORMULA,
               resultTree |-> tree0]
         ELSE IF r.exc # ""
         THEN [exc |-> r.exc, val |-> ParseOutputOption.NOT_FORMULA,
               resultTree |-> tree0]
         ELSE [exc |-> "", val |-> classify(r), resultTree |-> r.val] :
         r \in {Parser_parse(fm)}} : TRUE

lhs(tree) == Str(tree.left)

con(tree) == tree.name

rhs(tree) == Str(tree.right)

\* one printed line: the input line, what is said of it, and the parts of a
\* binary formula when they are printed
Printed(text, msg, l, c, r) ==
    [line |-> text, msg |-> msg, lhs |-> l, con |-> c, rhs |-> r]

MachineVars == <<stack, heap, retval>>

\* for line in f: the next line of the file, its newline removed
ReadLine(Texts, maxLines) ==
    /\ pc = "loop"
    /\ lineNo < maxLines
    /\ \E text \in Texts : line' = text
    /\ lineNo' = lineNo + 1
    /\ stdout' = <<>>
    /\ pc' = "parse"
    /\ UNCHANGED <<PARSE, SAT, parsed, resultTree, error, MachineVars, UnitVars>>

\* the end of the file ends the loop
EndOfFile ==
    /\ pc = "loop"
    /\ pc' = "exit"
    /\ UNCHANGED <<DriverVars, error, MachineVars, UnitVars>>

\* parsed = parse(line), and the output of the PARSE mode
ParseLine ==
    /\ pc = "parse"
    /\ \E r \in {parse(line, resultTree)} :
       IF r.exc # ""
       THEN /\ Crash(r.exc)
            /\ UNCHANGED <<parsed, resultTree, stdout>>
       ELSE /\ parsed' = r.val
            /\ resultTree' = r.resultTree
            /\ stdout' =
                 IF ~PARSE THEN stdout
                 ELSE IF r.val \in {5, 8}
                 THEN Append(stdout,
                        Printed(line, parseOutputs[r.val + 1],
                                lhs(r.resultTree), con(r.resultTree),
                                rhs(r.resultTree)))
                 ELSE Append(stdout,
                        Printed(line, parseOutputs[r.val + 1], <<>>, "", <<>>))
            /\ pc' = "checksat"
            /\ error' = error
    /\ UNCHANGED <<PARSE, SAT, lineNo, line, MachineVars, UnitVars>>

\* if SAT: false
SkipSat ==
    /\ pc = "checksat"
    /\ ~SAT
    /\ pc' = "loop"
    /\ UNCHANGED <<DriverVars, error, MachineVars, UnitVars>>

\* if SAT: if parsed: false
NotAFormula ==
    /\ pc = "checksat"
    /\ SAT
    /\ parsed = 0
    /\ stdout' = Append(stdout, Printed(line, "is not a formula", <<>>, "", <<>>))
    /\ pc' = "loop"
    /\ UNCHANGED <<PARSE, SAT, lineNo, line, parsed, resultTree, error,
                   MachineVars, UnitVars>>

\* a sat() that hands the machine the negation of the tree, as isValid of
\* src/main.py does
CallSat_Negated ==
    /\ pc = "checksat"
    /\ SAT
    /\ parsed # 0
    /\ heap' = <<PriorityQueue(<<>>, <<>>, <<>>)>>
    /\ stack' = <<Frame("_isFormulaClosed", NotFormula(resultTree), 1)>>
    /\ retval' = None
    /\ pc' = "sat"
    /\ UNCHANGED <<DriverVars, error, UnitVars>>

\* if SAT: if parsed: sat() creates a ProofMachine and calls
\* machine.SAT(resultTree): _isFormulaClosed(t, PriorityQueue(), "", "")
CallSat ==
    /\ pc = "checksat"
    /\ SAT
    /\ parsed # 0
    /\ heap' = <<PriorityQueue(<<>>, <<>>, <<>>)>>
    /\ stack' = <<Frame("_isFormulaClosed", resultTree, 1)>>
    /\ retval' = None
    /\ pc' = "sat"
    /\ UNCHANGED <<DriverVars, error, UnitVars>>

\* sat() returns str(result), which is printed after the line
PrintSat ==
    /\ pc = "sat"
    /\ stack = <<>>
    /\ retval # None
    /\ stdout' = Append(stdout,
                   Printed(line, satOutput[retval.result + 1], <<>>, "", <<>>))
    /\ pc' = "loop"
    /\ UNCHANGED <<PARSE, SAT, lineNo, line, parsed, resultTree, error,
                   MachineVars, UnitVars>>

---------------------------------------------------------------------------
(* Input texts.  GrammarTable(n)[k] is the set of the texts of length k the *)
(* grammar derives, over the letters above.                                 *)

Predicates ==
    {<<P, "(", a, ",", b, ")">> : P \in PredChars, a \in VarChars, b \in VarChars}

\* the texts of length n, given the table t of the shorter ones
GrammarLevel(t, n) ==
    (IF n = 1 THEN {<<c>> : c \in PropChars} ELSE {})
    \cup (IF n = 6 THEN Predicates ELSE {})
    \cup (IF n > 1 THEN {<<"-">> \o s : s \in t[n - 1]} ELSE {})
    \cup (IF n > 2
          THEN {<<Q, v>> \o s : Q \in Quantifiers, v \in VarChars, s \in t[n - 2]}
          ELSE {})
    \cup UNION {{<<"(">> \o l \o <<o>> \o r \o <<")">> :
                    l \in t[a], o \in BinOps, r \in t[n - 3 - a]} :
                a \in 1..(n - 4)}

RECURSIVE GrammarTable(_)
GrammarTable(n) ==
    IF n = 0 THEN <<>>
    ELSE CHOOSE r \in {Append(t, GrammarLevel(t, n)) :
                       t \in {GrammarTable(n - 1)}} : TRUE

Derivable(n) == UNION {t[k] : k \in 1..n, t \in {GrammarTable(n)}}

\* a text cut short, with a letter added or with a letter dropped
Damaged(s) ==
    {SubSeq(s, 1, k) : k \in 0..(Len(s) - 1)}
    \cup {s \o <<c>> : c \in Alphabet}
    \cup {SubSeq(s, 1, i - 1) \o SubSeq(s, i + 1, Len(s)) : i \in 1..Len(s)}

\* a damaged text, or a text with one letter replaced
Corrupt(s) ==
    Damaged(s) \cup {[s EXCEPT ![i] = c] : i \in 1..Len(s), c \in Alphabet}

ValidTexts == Derivable(MaxLen)

\* the inputs of the parser: the derivable texts up to length n and what
\* one edit makes of them
ParseTexts(n) ==
    UNION {valid \cup UNION {Corrupt(s) : s \in valid} : valid \in {Derivable(n)}}

\* the lines of the file: the derivable texts up to length n and the damaged
\* ones that are no longer
DriverTexts(n) ==
    UNION {{s \in valid \cup UNION {Damaged(t) : t \in valid} : Len(s) <= n} :
           valid \in {Derivable(n)}}

\* the end-to-end examples: Ex-P(x,x), (Ax(P(x,x)^-P(x,x))^ExQ(x,x)), and
\* MaxConstants + 1 nested quantifiers, each needing a constant of its own
Example1 == <<"E", "x", "-", "P", "(", "x", ",", "x", ")">>

Example2 ==
    <<"(", "A", "x", "(", "P", "(", "x", ",", "x", ")", "^", "-", "P", "(", "x",
      ",", "x", ")", ")", "^", "E", "x", "Q", "(", "x", ",", "x", ")", ")">>

RECURSIVE Nested(_)
Nested(n) ==
    IF n = 0 THEN <<"P", "(", "x", ",", "x", ")">>
    ELSE <<"E", "x">> \o Nested(n - 1)

Example3 == Nested(MaxConstants + 1)

SatTexts == ValidTexts \cup {Example1, Example2, Example3}

---------------------------------------------------------------------------
(* Specifications *)

NoCall == [fn |-> "none"]

Pending == [done |-> FALSE]

DriverInit ==
    /\ pc = "loop"
    /\ lineNo = 0
    /\ line = <<>>
    /\ parsed = 0
    /\ resultTree = None
    /\ stdout = <<>>
    /\ error = ""
    /\ stack = <<>>
    /\ heap = <<>>
    /\ retval = None
    /\ call = NoCall
    /\ ret = Pending

\* the program: firstLine sets the modes, then the loop over the lines
Init ==
    /\ PARSE \in BOOLEAN
    /\ SAT \in BOOLEAN
    /\ DriverInit

Next ==
    \/ ReadLine(DriverTexts(MaxLineLen), MaxLines)
    \/ EndOfFile
    \/ ParseLine
    \/ SkipSat
    \/ NotAFormula
    \/ CallSat
    \/ Machine
    \/ PrintSat

Spec == Init /\ [][Next]_vars

\* sat() on one line the parser accepts, in the SAT mode
InitSAT ==
    /\ PARSE = FALSE
    /\ SAT = TRUE
    /\ DriverInit

NextSAT ==
    \/ ReadLine(SatTexts, 1)
    \/ ParseLine
    \/ CallSat
    \/ Machine
    \/ PrintSat

SpecSAT == InitSAT /\ [][NextSAT]_vars

\* the interpreter runs a call of machine.SAT on: a step of the machine
\* that can be taken is taken
SpecSATFair == SpecSAT /\ WF_vars(Machine)

---------------------------------------------------------------------------
(* Unit harness: one function of the module applied to one argument list,   *)
(* as the test block at the end of src/main.py applies Parser().parse and   *)
(* print() to each test input.                                              *)

\* the trees the parser builds from the derivable texts up to length n
ValidTrees(n) == {Parser_parse(s).val : s \in Derivable(n)}

Verdicts == {SATISFIABLE, NOT_SATISFIABLE, MAY_SATISFIABLE}

UnitIdle ==
    /\ PARSE = FALSE
    /\ SAT = FALSE
    /\ pc = "unit"
    /\ lineNo = 0
    /\ line = <<>>
    /\ parsed = 0
    /\ resultTree = None
    /\ stdout = <<>>
    /\ error = ""
    /\ stack = <<>>
    /\ heap = <<>>
    /\ retval = None
    /\ ret = Pending

InitUnit ==
    /\ UnitIdle
    /\ \/ call \in {[fn |-> "Parser.parse", tokens |-> s] : s \in ParseTexts(MaxLen)}
       \/ call \in {[fn |-> "expand", self |-> t] :
                    t \in {u \in ValidTrees(MaxLen) :
                             u.cls \in {"NotFormula", "ImpliesFormula"}}}
       \/ call \in {[fn |-> "checkSAT", self |-> Result(a), other |-> Result(b)] :
                    a \in Verdicts, b \in Verdicts}

UnitFrame == <<PARSE, SAT, pc, lineNo, line, parsed, resultTree, stdout, error,
               stack, heap, retval, call>>

\* tree = parser.parse(s)
UnitParse ==
    /\ pc = "unit"
    /\ call.fn = "Parser.parse"
    /\ ~ret.done
    /\ \E r \in {Parser_parse(call.tokens)} :
          ret' = [done |-> TRUE, exc |-> r.exc, val |-> r.val,
                  printed |-> FALSE, text |-> <<>>]
    /\ UNCHANGED UnitFrame

\* print(tree)
UnitStr ==
    /\ pc = "unit"
    /\ call.fn = "Parser.parse"
    /\ ret.done
    /\ ret.exc = ""
    /\ ~ret.printed
    /\ ret' = [ret EXCEPT !.printed = TRUE, !.text = Str(ret.val)]
    /\ UNCHANGED UnitFrame

\* self.expand()
UnitExpand ==
    /\ pc = "unit"
    /\ call.fn = "expand"
    /\ ~ret.done
    /\ ret' = [done |-> TRUE, exc |-> "", val |-> expand(call.self)]
    /\ UNCHANGED UnitFrame

\* Result.checkSAT(self, other)
UnitCheckSAT ==
    /\ pc = "unit"
    /\ call.fn = "checkSAT"
    /\ ~ret.done
    /\ \E r \in {checkSAT(call.self, call.other)} :
          ret' = [done |-> TRUE, exc |-> r.exc, val |-> r.val]
    /\ UNCHANGED UnitFrame

NextUnit ==
    \/ UnitParse
    \/ UnitStr
    \/ UnitExpand
    \/ UnitCheckSAT

SpecUnit == InitUnit /\ [][NextUnit]_vars

---------------------------------------------------------------------------
(* Value harness: ==, and Predicate.substitute, applied to objects built    *)
(* with the constructors (variables x, y; constants a, b; names P, Q).      *)

EqDepth == 2

Terms == {Variable("x"), Variable("y"), Constant("a"), Constant("b")}

PredicateValues ==
    {Predicate(n, l, r) : n \in {"P", "Q"}, l \in Terms, r \in Terms}

\* the trees of depth n at most over p, q: negations, quantifications over
\* x and y, and binary forms with an atom on the right
RECURSIVE EqTrees(_)
EqTrees(n) ==
    IF n = 0 THEN {Proposition("p"), Proposition("q")}
    ELSE CHOOSE result \in
           {T \cup {NotFormula(t) : t \in T}
              \cup {ForAllFormula(v, t) : v \in {Variable("x"), Variable("y")},
                                          t \in T}
              \cup {ExistFormula(v, t) : v \in {Variable("x"), Variable("y")},
                                         t \in T}
              \cup {Formula(cls, FormulaSymbol.And, t, a) :
                      cls \in {"AndFormula"}, t \in T, a \in EqTrees(0)}
              \cup {Formula(cls, FormulaSymbol.Or, t, a) :
                      cls \in {"OrFormula"}, t \in T, a \in EqTrees(0)}
              \cup {Formula(cls, FormulaSymbol.Implies, t, a) :
                      cls \in {"ImpliesFormula"}, t \in T, a \in EqTrees(0)} :
            T \in {EqTrees(n - 1)}} : TRUE

MaxSymbols == 4

\* the literals of a branch: p, q, P(a,b), Q(a,b) and their negations
Literals ==
    LET atoms == {Proposition("p"), Proposition("q"),
                  Predicate("P", Constant("a"), Constant("b")),
                  Predicate("Q", Constant("a"), Constant("b"))}
    IN  atoms \cup {NotFormula(a) : a \in atoms}

\* the lists of n literals at most
SymbolLists(n) == UNION {[1..k -> Literals] : k \in 0..n}

InitValue ==
    /\ UnitIdle
    /\ \/ call \in {[fn |-> "Predicate.__eq__", self |-> a, other |-> b] :
                    a \in PredicateValues, b \in PredicateValues}
       \/ call \in {[fn |-> "Formula.__eq__", self |-> a, other |-> b] :
                    a \in EqTrees(EqDepth) \ EqTrees(0), b \in EqTrees(EqDepth)}
       \/ call \in {[fn |-> "Predicate.substitute", self |-> a, v |-> v, c |-> c] :
                    a \in PredicateValues,
                    v \in {Variable("x"), Variable("y")},
                    c \in {Constant("a"), Constant("b")}}
       \/ call \in {[fn |-> "checkContradiction",
                     self |-> PriorityQueue(<<>>, syms, <<>>)] :
                    syms \in SymbolLists(MaxSymbols)}

\* self == other on two predicates
ValuePredicateEq ==
    /\ pc = "unit"
    /\ call.fn = "Predicate.__eq__"
    /\ ~ret.done
    /\ \E r \in {Predicate_eq(call.self, call.other)} :
          ret' = [done |-> TRUE, exc |-> r.exc, val |-> r.val]
    /\ UNCHANGED UnitFrame

\* self == other on two formulas
ValueFormulaEq ==
    /\ pc = "unit"
    /\ call.fn = "Formula.__eq__"
    /\ ~ret.done
    /\ \E r \in {Formula_eq(call.self, call.other)} :
          ret' = [done |-> TRUE, exc |-> r.exc, val |-> r.val]
    /\ UNCHANGED UnitFrame

\* self.substitute(v, c), then self.isQuantified()
ValueSubstitute ==
    /\ pc = "unit"
    /\ call.fn = "Predicate.substitute"
    /\ ~ret.done
    /\ \E r \in {substitute(call.self, call.v, call.c)} :
          ret' = [done |-> TRUE, exc |-> r.exc, val |-> r.val,
                  isQuantified |-> isQuantified(r.val)]
    /\ UNCHANGED UnitFrame

\* queue.checkContradiction()
ValueCheckContradiction ==
    /\ pc = "unit"
    /\ call.fn = "checkContradiction"
    /\ ~ret.done
    /\ \E r \in {checkContradiction(call.self)} :
          ret' = [done |-> TRUE, exc |-> r.exc, val |-> r.val,
                  self |-> call.self]
    /\ UNCHANGED UnitFrame

NextValue ==
    \/ ValuePredicateEq
    \/ ValueFormulaEq
    \/ ValueSubstitute
    \/ ValueCheckContradiction

SpecValue == InitValue /\ [][NextValue]_vars

---------------------------------------------------------------------------
(* Queue harness: one PriorityQueue, heap[1], and the calls of addFormula    *)
(* and getFormula on it, in any order.                                      *)

MaxQueue == 3

\* the formulas handed to addFormula
QueueFormulas ==
    LET p == Proposition("p")
        q == Proposition("q")
        x == Variable("x")
    IN  {p, NotFormula(p), NotFormula(NotFormula(p)),
         Predicate("P", Constant("a"), Constant("b")),
         AndFormula(p, q), OrFormula(p, q), ImpliesFormula(p, q),
         NotFormula(AndFormula(p, q)), NotFormula(OrFormula(p, q)),
         NotFormula(ImpliesFormula(p, q)),
         ExistFormula(x, p), ForAllFormula(x, p),
         NotFormula(ExistFormula(x, p)), NotFormula(ForAllFormula(x, p))}

InitQueue ==
    /\ PARSE = FALSE
    /\ SAT = FALSE
    /\ pc = "unit"
    /\ lineNo = 0
    /\ line = <<>>
    /\ parsed = 0
    /\ resultTree = None
    /\ stdout = <<>>
    /\ error = ""
    /\ stack = <<>>
    /\ heap = <<PriorityQueue(<<>>, <<>>, <<>>)>>
    /\ retval = None
    /\ call = NoCall
    /\ ret = Pending

QueueFrame == <<PARSE, SAT, pc, lineNo, line, parsed, resultTree, stdout,
                error, stack, retval>>

\* queue.addFormula(fm)
QueueAdd ==
    /\ pc = "unit"
    /\ Len(heap[1].formulas) + Len(heap[1].symbols) < MaxQueue
    /\ \E fm \in QueueFormulas :
        \E after \in {addFormula(heap[1], fm)} :
          /\ heap' = <<after>>
          /\ call' = [fn |-> "addFormula", self |-> heap[1], fm |-> fm]
          /\ ret' = [done |-> TRUE, exc |-> "", val |-> None, self |-> after]
    /\ UNCHANGED QueueFrame

\* queue.getFormula()
QueueGet ==
    /\ pc = "unit"
    /\ \E g \in {getFormula(heap[1])} :
          /\ heap' = <<g.self>>
          /\ call' = [fn |-> "getFormula", self |-> heap[1]]
          /\ ret' = [done |-> TRUE, exc |-> "", val |-> g.val, self |-> g.self]
    /\ UNCHANGED QueueFrame

NextQueue ==
    \/ QueueAdd
    \/ QueueGet

SpecQueue == InitQueue /\ [][NextQueue]_vars

---------------------------------------------------------------------------
(* Constant harness: one PriorityQueue, heap[1], built with some constants  *)
(* already in it, and calls of introduceConstant on it.                     *)

MaxGiven == 2

\* the lists of n distinct letters of a..j at most
GivenConstants(n) ==
    {c \in UNION {[1..k -> {Constant(ConstChar(i)) : i \in 0..9}] : k \in 0..n} :
        \A i, j \in DOMAIN c : i # j => c[i] # c[j]}

InitConst ==
    /\ PARSE = FALSE
    /\ SAT = FALSE
    /\ pc = "unit"
    /\ lineNo = 0
    /\ line = <<>>
    /\ parsed = 0
    /\ resultTree = None
    /\ stdout = <<>>
    /\ error = ""
    /\ stack = <<>>
    /\ heap \in {<<PriorityQueue(<<>>, <<>>, c)>> : c \in GivenConstants(MaxGiven)}
    /\ retval = None
    /\ call = NoCall
    /\ ret = Pending

\* queue.introduceConstant()
ConstIntroduce ==
    /\ pc = "unit"
    /\ \E r \in {introduceConstant(heap[1])} :
          /\ heap' = <<r.self>>
          /\ call' = [fn |-> "introduceConstant", self |-> heap[1]]
          /\ ret' = [done |-> TRUE, exc |-> "", val |-> r.val, self |-> r.self]
    /\ UNCHANGED QueueFrame

NextConst == ConstIntroduce

SpecConst == InitConst /\ [][NextConst]_vars

---------------------------------------------------------------------------
(* What the claims are stated with: the grammar read as a definition, the   *)
(* truth-table meaning of a propositional tree, and the tables of the       *)
(* specification.                                                           *)

\* the text s is derived from the grammar (every way of splitting it tried)
RECURSIVE InGrammar(_)
InGrammar(s) ==
    LET n == Len(s) IN
    \/ n = 1 /\ s[1] \in {"p", "q", "r", "s"}
    \/ /\ n = 6
       /\ s[1] \in {"P", "Q", "R", "S"}
       /\ s[2] = "(" /\ s[4] = "," /\ s[6] = ")"
       /\ s[3] \in {"x", "y", "z", "w"} /\ s[5] \in {"x", "y", "z", "w"}
    \/ n >= 2 /\ s[1] = "-" /\ InGrammar(SubSeq(s, 2, n))
    \/ /\ n >= 3
       /\ s[1] \in {"E", "A"}
       /\ s[2] \in {"x", "y", "z", "w"}
       /\ InGrammar(SubSeq(s, 3, n))
    \/ /\ n >= 5
       /\ s[1] = "(" /\ s[n] = ")"
       /\ \E k \in 3..(n - 2) :
            /\ s[k] \in {"^", "v", ">"}
            /\ InGrammar(SubSeq(s, 2, k - 1))
            /\ InGrammar(SubSeq(s, k + 1, n - 1))

\* the tree is built from propositions with -, ^, v, > only
RECURSIVE Propositional(_)
Propositional(t) ==
    CASE t.cls = "Proposition" -> TRUE
      [] t.cls = "NotFormula" -> Propositional(t.left)
      [] t.cls \in {"AndFormula", "OrFormula", "ImpliesFormula"} ->
            Propositional(t.left) /\ Propositional(t.right)
      [] OTHER -> FALSE

\* the tree holds a quantifier
RECURSIVE HasQuantifier(_)
HasQuantifier(t) ==
    CASE t.cls \in {"ForAllFormula", "ExistFormula"} -> TRUE
      [] t.cls = "NotFormula" -> HasQuantifier(t.left)
      [] t.cls \in {"AndFormula", "OrFormula", "ImpliesFormula"} ->
            HasQuantifier(t.left) \/ HasQuantifier(t.right)
      [] OTHER -> FALSE

\* the truth value of a propositional tree when exactly the letters of A hold
RECURSIVE Holds(_, _)
Holds(t, A) ==
    CASE t.cls = "Proposition" -> t.name \in A
      [] t.cls = "NotFormula" -> ~Holds(t.left, A)
      [] t.cls = "AndFormula" -> Holds(t.left, A) /\ Holds(t.right, A)
      [] t.cls = "OrFormula" -> Holds(t.left, A) \/ Holds(t.right, A)
      [] t.cls = "ImpliesFormula" -> Holds(t.left, A) => Holds(t.right, A)
      [] OTHER -> FALSE

Satisfiable(t) == \E A \in SUBSET {"p", "q", "r", "s"} : Holds(t, A)

\* sat() has its result from machine.SAT(resultTree)
SatReturned == pc = "sat" /\ stack = <<>> /\ retval # None

\* the program ended by an exception while in machine.SAT(resultTree)
SatRaised == pc = "crashed" /\ stack # <<>>

---------------------------------------------------------------------------
(* C1..C3: the verdicts of ProofMachine.SAT, under SpecSAT *)

\* C1: on every propositional formula the parser accepts, SAT returns
\* SATISFIABLE when some truth assignment satisfies it and NOT_SATISFIABLE
\* when none does (so it returns, and with that verdict).
C1_PropositionalVerdict ==
    /\ SatRaised => ~Propositional(resultTree)
    /\ (SatReturned /\ Propositional(resultTree)) =>
          retval.result = IF Satisfiable(resultTree)
                          THEN SATISFIABLE ELSE NOT_SATISFIABLE

\* C2: on a formula with quantifiers SAT expands the quantifiers and returns
\* a verdict: SATISFIABLE for Ex-P(x,x), NOT_SATISFIABLE for
\* (Ax(P(x,x)^-P(x,x))^ExQ(x,x)).
C2_QuantifierVerdict ==
    /\ SatRaised => ~HasQuantifier(resultTree)
    /\ (SatReturned /\ line = Example1) => retval.result = SATISFIABLE
    /\ (SatReturned /\ line = Example2) => retval.result = NOT_SATISFIABLE

\* C3: a formula whose only open branch needs one constant more than the
\* ten of a..j ends with the verdict MAY_BE_SATISFIABLE, not with an error
\* and not with another verdict.
C3_CapVerdict ==
    (line = Example3 /\ pc \notin {"parse", "checksat"}) =>
        /\ ~SatRaised
        /\ SatReturned => retval.result = MAY_SATISFIABLE
        /\ pc = "loop" => retval.result = MAY_SATISFIABLE

---------------------------------------------------------------------------
(* C4, C5: the parser and the printer, under SpecUnit *)

ParseDone == call.fn = "Parser.parse" /\ ret.done

\* C4: Parser.parse returns a tree exactly when the whole text is derivable
\* from the grammar, and on every other text it fails with a ParseException
\* and with no other kind of failure.
C4_TreeOrParseException ==
    ParseDone =>
        IF InGrammar(call.tokens)
        THEN ret.exc = ""
        ELSE ret.exc = "ParseException"

\* C5: for every text s the grammar derives, Parser.parse(s) returns a tree
\* and str() of that tree is s again, parentheses and prefix signs included.
C5_RoundTrip ==
    (ParseDone /\ InGrammar(call.tokens)) =>
        /\ ret.exc = ""
        /\ ret.printed => ret.text = call.tokens

\* a binary form with a quantified left side has been parsed and printed
C5_Witness ==
    /\ ParseDone
    /\ InGrammar(call.tokens)
    /\ ret.printed
    /\ ret.val.cls \in {"AndFormula", "OrFormula", "ImpliesFormula"}
    /\ ret.val.left.cls \in {"ExistFormula", "ForAllFormula"}
    /\ ret.text = call.tokens

---------------------------------------------------------------------------
(* C6: the driver loop on a line the grammar does not derive, under Spec *)

\* C6: a line that does not conform to the grammar fails only that line: the
\* program does not end on it, reports it as not a formula, and does not run
\* the satisfiability check for it.
C6_BadLineFailsAlone ==
    (lineNo >= 1 /\ ~InGrammar(line)) =>
        /\ pc # "crashed"
        /\ pc # "sat"
        /\ pc \in {"checksat", "loop", "exit"} => parsed = 0
        /\ (PARSE /\ pc \in {"checksat", "loop", "exit"}) =>
              stdout[1].msg = "not a formula"
        /\ (SAT /\ pc \in {"loop", "exit"}) =>
              stdout[Len(stdout)].msg = "is not a formula"

---------------------------------------------------------------------------
(* C7: the seed and the leaves of the search, under SpecSAT *)

\* some literal of the branch is the negation of another
Contradictory(symbols) ==
    \E i, j \in DOMAIN symbols : symbols[i] = NotFormula(symbols[j])

EmptyQueue == [formulas |-> <<>>, symbols |-> <<>>, constants |-> <<>>]

---------------------------------------------------------------------------
(* C8..C10: the tables, under SpecUnit *)

\* the combination table of the specification, rows and columns in the
\* order NOT_SATISFIABLE, SATISFIABLE, MAY_SATISFIABLE
CombineTable ==
    <<  <<NOT_SATISFIABLE, SATISFIABLE, MAY_SATISFIABLE>>,
        <<SATISFIABLE,     SATISFIABLE, SATISFIABLE>>,
        <<MAY_SATISFIABLE, SATISFIABLE, MAY_SATISFIABLE>>  >>

\* C8: Result.checkSAT never raises, gives the verdict of the table for each
\* of the nine pairs (SATISFIABLE if either side is, else MAY_SATISFIABLE if
\* either side is, else NOT_SATISFIABLE), and gives the same verdict with
\* its arguments exchanged.
C8_CombineTable ==
    (call.fn = "checkSAT" /\ ret.done) =>
        /\ ret.exc = ""
        /\ ret.val = Result(CombineTable[call.self.result + 1]
                                        [call.other.result + 1])
        /\ ret.val = checkSAT(call.other, call.self).val

\* NOT_SATISFIABLE has been combined with MAY_SATISFIABLE
C8_Witness ==
    /\ call.fn = "checkSAT"
    /\ ret.done
    /\ call.self.result = NOT_SATISFIABLE
    /\ call.other.result = MAY_SATISFIABLE
    /\ ret.val.result = MAY_SATISFIABLE

ExpandDone == call.fn = "expand" /\ ret.done

Literal(t) == t.cls \in {"Proposition", "Predicate"}

\* the propositional rows of the expansion table
PropositionalRow(f) ==
    \/ f.cls = "ImpliesFormula"
    \/ /\ f.cls = "NotFormula"
       /\ \/ Literal(f.left)
          \/ f.left.cls \in {"AndFormula", "OrFormula", "NotFormula",
                             "ImpliesFormula"}

ExpansionTable(f) ==
    IF f.cls = "ImpliesFormula"
    THEN Formula("OrFormula", "v",
                 Formula("NotFormula", "-", f.left, None), f.right)
    ELSE LET A == f.left.left
             B == f.left.right
             Not(X) == Formula("NotFormula", "-", X, None)
         IN  CASE f.left.cls = "AndFormula" ->
                    Formula("OrFormula", "v", Not(A), Not(B))
               [] f.left.cls = "OrFormula" ->
                    Formula("AndFormula", "^", Not(A), Not(B))
               [] f.left.cls = "NotFormula" -> A
               [] f.left.cls = "ImpliesFormula" ->
                    Formula("AndFormula", "^", A, Not(B))
               [] OTHER -> f

\* C9: expand() rewrites -(A^B) to (-Av-B), -(AvB) to (-A^-B), --A to A,
\* -(A>B) to (A^-B), (A>B) to (-AvB), and leaves the negation of a literal
\* as it is.
C9_PropositionalRewrites ==
    (ExpandDone /\ PropositionalRow(call.self)) =>
        /\ ret.exc = ""
        /\ ret.val = ExpansionTable(call.self)

\* an implication with a negated left side has been expanded
C9_Witness ==
    /\ ExpandDone
    /\ call.self.cls = "ImpliesFormula"
    /\ call.self.left.cls = "NotFormula"
    /\ ret.val.cls = "OrFormula"
    /\ ret.val.left = Formula("NotFormula", "-", call.self.left, None)

\* C10: expand() rewrites Not(ForAll(v, B)) to Exists(v, Not(B)) and
\* Not(Exists(v, B)) to ForAll(v, Not(B)): the quantifier is exchanged for
\* its dual over the same variable and the negation is put on the body B.
C10_QuantifierDuals ==
    (ExpandDone /\ call.self.cls = "NotFormula"
                /\ call.self.left.cls \in {"ForAllFormula", "ExistFormula"}) =>
        LET q == call.self.left IN
        /\ ret.val.cls = IF q.cls = "ForAllFormula"
                         THEN "ExistFormula" ELSE "ForAllFormula"
        /\ ret.val.var = q.var
        /\ ret.val.left = Formula("NotFormula", "-", q.left, None)

---------------------------------------------------------------------------
(* C11, C12, C19: equality and substitution, under SpecValue *)

\* C11: two predicates compare equal exactly when they have the same name
\* and the same ordered pair of argument values.
C11_PredicateEquality ==
    (call.fn = "Predicate.__eq__" /\ ret.done) =>
        /\ ret.exc = ""
        /\ ret.val = (/\ call.self.name = call.other.name
                      /\ call.self.leftVar = call.other.leftVar
                      /\ call.self.rightVar = call.other.rightVar)

\* C12: two formula trees compare equal exactly when they have the same tag
\* and recursively equal children, and two quantifier nodes only when their
\* bound variables have the same name as well: exactly when they are the
\* same tree.
C12_FormulaEquality ==
    (call.fn = "Formula.__eq__" /\ ret.done) =>
        /\ ret.exc = ""
        /\ ret.val = (call.self = call.other)

\* C19: substituting c for v in a predicate puts c in every argument slot
\* that held v and leaves the other slots, so a predicate whose two slots
\* held v is grounded afterwards.
C19_SubstituteEverySlot ==
    (call.fn = "Predicate.substitute" /\ ret.done) =>
        /\ ret.exc = ""
        /\ ret.val.name = call.self.name
        /\ ret.val.leftVar =
              IF call.self.leftVar = call.v THEN call.c ELSE call.self.leftVar
        /\ ret.val.rightVar =
              IF call.self.rightVar = call.v THEN call.c ELSE call.self.rightVar
        /\ (call.self.leftVar = call.v /\ call.self.rightVar = call.v) =>
              ret.isQuantified

---------------------------------------------------------------------------
(* C13..C15: the running search, under SpecSAT *)

\* C13: in every branch state of a search started from an accepted formula
\* the pending queue holds only formulas whose top node is And, Or, ForAll or
\* Exists, and the engine never ends with 'Cannot evaluate formula'.
C13_QueueClassified ==
    /\ error # "TableauException"
    /\ \A i \in DOMAIN heap : \A k \in DOMAIN heap[i].formulas :
          heap[i].formulas[k].cls \in
              {"AndFormula", "OrFormula", "ForAllFormula", "ExistFormula"}


\* C14: SAT terminates on every accepted formula with every branch at a
\* leaf, so a call of SAT leads to SAT returning its verdict to sat(), and
\* the recursion is never deeper than three calls for each character of the
\* formula.
C14_Terminates ==
    /\ (pc = "sat") ~> SatReturned
    /\ [](Len(stack) <= 3 * Len(line))


\* the calls below a waiting _beta work on queues that no call from the
\* _beta downwards holds
ClonesApart ==
    \A k \in DOMAIN stack : \A j \in DOMAIN stack :
        (k < j /\ stack[k].fn = "_beta") =>
            \A m \in 1..k : stack[j].queue # stack[m].queue

\* a step changes no queue but the one of the running call, a _beta changes
\* none, and the queue a _beta hands to a disjunct is a new object with the
\* content of its own
IsolatedStep ==
    /\ \A i \in DOMAIN heap \cap DOMAIN heap' :
          heap'[i] # heap[i] =>
              stack # <<>> /\ Top.queue = i /\ Top.fn # "_beta"
    /\ (stack # <<>> /\ Top.fn = "_beta" /\ Len(stack') = Len(stack) + 1) =>
          LET child == stack'[Len(stack')] IN
          /\ child.queue \notin DOMAIN heap
          /\ child.queue \in DOMAIN heap'
          /\ heap'[child.queue] = heap[Top.queue]
          /\ child.fm \in {Top.fm.left, Top.fm.right}

\* C15: at a beta split each disjunct is decided on its own clone of the
\* branch state, and whatever a call does to its queue leaves the queues of
\* its sibling and of its parent as they were.
C15_BranchIsolation == []ClonesApart /\ [][IsolatedStep]_vars

\* the second disjunct of a split is being decided, and its state, its
\* sibling's and its parent's have grown apart
C15_Witness ==
    \E k \in DOMAIN stack :
        /\ k < Len(stack)
        /\ stack[k].fn = "_beta"
        /\ stack[k].at = "right"
        /\ heap[Top.queue] # heap[stack[k].queue]
        /\ \E i \in DOMAIN heap \ {Top.queue, stack[k].queue} :
              /\ heap[i] # heap[Top.queue]
              /\ heap[i] # heap[stack[k].queue]

---------------------------------------------------------------------------
(* C16: the order of the pending queue, under SpecQueue *)

\* what the specification's table makes of a formula before it is queued
Rewritten(fm) == IF PropositionalRow(fm) THEN ExpansionTable(fm) ELSE fm

\* the top node of a formula after rewriting
RewrittenTag(fm) ==
    IF fm.cls = "NotFormula" /\ fm.left.cls = "ForAllFormula"
    THEN "ExistFormula"
    ELSE IF fm.cls = "NotFormula" /\ fm.left.cls = "ExistFormula"
    THEN "ForAllFormula"
    ELSE Rewritten(fm).cls

\* after rewriting the formula is a literal
LiteralAfterRewriting(fm) ==
    \/ Literal(Rewritten(fm))
    \/ Rewritten(fm).cls = "NotFormula" /\ Literal(Rewritten(fm).left)

\* C16: addFormula puts a non-literal formula that is, after rewriting, an
\* Exists or an And at the front of the pending queue and every other
\* non-literal formula at the back, the formulas already pending keeping
\* their order; getFormula pops the front, or returns None on an empty queue.
C16_OrderingPolicy ==
    /\ (call.fn = "addFormula" /\ ~LiteralAfterRewriting(call.fm)) =>
          LET old == call.self.formulas
              new == ret.self.formulas
          IN  /\ Len(new) = Len(old) + 1
              /\ ret.self.symbols = call.self.symbols
              /\ IF RewrittenTag(call.fm) \in {"ExistFormula", "AndFormula"}
                 THEN /\ Tail(new) = old
                      /\ Head(new).cls = RewrittenTag(call.fm)
                 ELSE /\ SubSeq(new, 1, Len(old)) = old
                      /\ new[Len(new)].cls = RewrittenTag(call.fm)
    /\ call.fn = "getFormula" =>
          LET old == call.self.formulas IN
          IF old = <<>>
          THEN ret.val = None /\ ret.self = call.self
          ELSE /\ ret.val = Head(old)
               /\ ret.self.formulas = Tail(old)
               /\ ret.self.symbols = call.self.symbols

\* a negation that is rewritten to an And has gone in front of an Or and a
\* ForAll that were pending
C16_Witness ==
    /\ call.fn = "addFormula"
    /\ call.fm.cls = "NotFormula"
    /\ RewrittenTag(call.fm) = "AndFormula"
    /\ Len(call.self.formulas) = 2
    /\ call.self.formulas[1].cls = "OrFormula"
    /\ call.self.formulas[2].cls = "ForAllFormula"
    /\ Head(ret.self.formulas).cls = "AndFormula"

---------------------------------------------------------------------------
(* C17: the contradiction scan, under SpecValue *)

\* symbols[i] is a negated literal whose un-negated form is in the list
Contradicts(symbols, i) ==
    /\ symbols[i].cls = "NotFormula"
    /\ \E j \in DOMAIN symbols : symbols[j] = symbols[i].left

\* C17: checkContradiction returns the first negated literal of the
\* collection whose un-negated form is, structurally, another literal of the
\* collection, returns None when there is none, and does not raise.
C17_FirstContradiction ==
    (call.fn = "checkContradiction" /\ ret.done) =>
        LET symbols == call.self.symbols
            found == {i \in DOMAIN symbols : Contradicts(symbols, i)}
        IN  /\ ret.exc = ""
            /\ ret.self = call.self
            /\ ret.val = IF found = {} THEN None
                         ELSE symbols[CHOOSE i \in found :
                                        \A k \in found : i <= k]

---------------------------------------------------------------------------
(* C18: the constants of a branch, under SpecConst *)

Letters == <<"a", "b", "c", "d", "e", "f", "g", "h", "i", "j">>

\* C18: the constants of a branch state are pairwise distinct letters of
\* a..j; a call of introduceConstant returns and appends the first letter of
\* a..j that is not among them, and when all ten are there it returns None
\* and leaves the constants as they are.
C18_ConstantCap ==
    /\ \A i \in DOMAIN heap :
          LET cs == heap[i].constants IN
          /\ \A k \in DOMAIN cs :
                cs[k].cls = "Constant" /\ \E n \in 1..10 : cs[k].name = Letters[n]
          /\ \A k, m \in DOMAIN cs : k # m => cs[k].name # cs[m].name
    /\ call.fn = "introduceConstant" =>
          LET old == call.self.constants
              present == {old[k].name : k \in DOMAIN old}
              free == {n \in 1..10 : Letters[n] \notin present}
          IN  IF free = {}
              THEN /\ Len(old) = 10
                   /\ ret.val = None
                   /\ ret.self = call.self
              ELSE LET first == CHOOSE n \in free : \A m \in free : n <= m
                       c == [cls |-> "Constant", name |-> Letters[first]]
                   IN  /\ ret.val = c
                       /\ ret.self.constants = Append(old, c)
                       /\ ret.self.formulas = call.self.formulas
                       /\ ret.self.symbols = call.self.symbols

\* a queue that was given c and has introduced a, b, d..j is asked for an
\* eleventh constant and returns None
C18_Witness ==
    /\ call.fn = "introduceConstant"
    /\ Len(call.self.constants) = 10
    /\ call.self.constants[1].name = "c"
    /\ call.self.constants[2].name = "a"
    /\ call.self.constants[4].name = "d"
    /\ ret.val = None
    /\ heap[1] = call.self

====
